---- MODULE Spec2Model ----
(***************************************************************************)
(* A model of MusicVisualizer (src/mbmMusicVisualizer.py): the node's      *)
(* process() frame loop, the latent recurrence (_iterateLatentByMode and   *)
(* _applyFeatToLatent) and the seed sequencer (_iterateSeedByMode).        *)
(*                                                                         *)
(* Tensors are sequences of integers kept in a heap of tensor objects, so  *)
(* that an in-place += and a clone() are different things.  Every tensor *)
(* the model starts from has an integer mean, and every modifier is an     *)
(* integer, so the float arithmetic of the source is exact on them.        *)
(* Frame indices are 0-based as in the source; sequences are 1-based, so   *)
(* the source's x[i] is x[i + 1] here.                                     *)
(***************************************************************************)
EXTENDS Integers, Sequences, FiniteSets, TLC

\* ------------------------------------------------------------- bounds
\* Longest prompts[0].positive (desiredFrames) of the enumerated runs.
MaxFrames == 3
\* Largest number of PromptFrames of the enumerated runs.
MaxPrompts == 3
\* Largest image_limit of the enumerated runs.
MaxLimit == 2
\* desiredFrames of the constant-modifier runs.
LongFrames == 10
\* Largest seed of the model: stands for the widget's 0xffffffffffffffff.
SeedMax == 15

\* ------------------------------------------------------------- class constants
SEED_MODE_FIXED == "fixed"
SEED_MODE_RANDOM == "random"
SEED_MODE_INCREASE == "increase"
SEED_MODE_DECREASE == "decrease"

LATENT_MODE_STATIC == "static"
LATENT_MODE_INCREASE == "increase"
LATENT_MODE_DECREASE == "decrease"
LATENT_MODE_FLOW == "flow"
LATENT_MODE_GAUSS == "guassian"
LATENT_MODE_BOUNCE == "bounce"

FEAT_APPLY_METHOD_ADD == "add"
FEAT_APPLY_METHOD_SUBTRACT == "subtract"

SeedModes == {SEED_MODE_FIXED, SEED_MODE_RANDOM, SEED_MODE_INCREASE, SEED_MODE_DECREASE}
LatentModes == {LATENT_MODE_BOUNCE, LATENT_MODE_FLOW, LATENT_MODE_STATIC,
                LATENT_MODE_INCREASE, LATENT_MODE_DECREASE, LATENT_MODE_GAUSS}

\* The exceptions process() can end with.
NoError == "none"
IndexError == "IndexError: list index out of range"
BounceLimitError == "ValueError: Latent Mod Limit must be set to >0 when using the bounce Latent Mode"
NoPromptError == "ValueError: At least one prompt is required."

\* ------------------------------------------------------------- tensors
RECURSIVE SumSeq(_)
SumSeq(t) == IF t = <<>> THEN 0 ELSE Head(t) + SumSeq(Tail(t))

\* torch.mean(latent); exact, the sum of every tensor of the model is a
\* multiple of its size.
Mean(t) == SumSeq(t) \div Len(t)

\* latent + modifier, broadcast over every element.
Broadcast(t, d) == [k \in DOMAIN t |-> t[k] + d]

\* np.zeros(n)
Zeros(n) == [k \in 1..n |-> 0]

\* The tensors np.random.normal(3, 2.5, size) is taken to draw.
GaussTensors == {<<3, 3>>, <<1, 7>>}

\* ------------------------------------------------------------- random source
\* Python's random module is a Mersenne twister: random.seed(s) fixes the
\* stream of 32-bit words it puts out, and each draw consumes words of that
\* stream.  TwisterWords(s) lists the upper 16 bits of the first 64 words after
\* random.seed(s), for the seeds the runs use.
TwisterWords(s) ==
    CASE s = 0 ->
         <<
            55340, 25247, 49673, 58343, 27562,  2653, 16968, 63272,
            33506, 31845, 26537, 60177, 51367, 54385, 19877, 63425,
            31234, 23465, 38232, 58435, 59514, 14315, 33075,  9127,
            18470,  9158, 49532,  6214, 40525, 52389, 16417, 64701,
            59621, 34902, 64407, 46214, 53098, 39446, 59124,  9631,
            20325,  6472, 47830,  4832, 58906, 55736, 44825, 21639,
            30942, 36687,  6599, 23186, 28453, 20722, 40035, 41970,
            59835, 13400, 63347, 36210, 31261, 29012, 56708, 34167 >>
      [] s = 3 ->
         <<
            15595, 38839, 35666,  8547, 24245, 60027, 39578, 31067,
            41007, 38066,  4294, 39688,   862, 59560, 54884, 30751,
            16997, 36096, 15357, 12566, 65250, 46999, 30819, 35453,
            54818, 36020, 31218, 26026, 41881, 56427,  9870, 15199,
            41606,  9936, 56888, 60675, 34287, 25554, 48578,   992,
            44001, 50936,  4196, 10446, 49691, 62750, 38738,  2804,
            19743, 51123,  2032, 53973, 56723, 17657, 30982, 38977,
            47108, 60303, 57593, 25402, 46801, 51649, 60365, 27979 >>
      [] s = 15 ->
         <<
            63258, 13695,   763, 34165, 48233,  2370, 10355, 59835,
            64640, 15659,  1106,  3601, 57638, 52748, 44652,  9650,
            56186, 45532, 65523, 24070, 15709,  7676, 22156, 30561,
            46412, 23313, 18388, 25708, 17256, 22566, 14982, 61278,
            56219, 13524, 57313, 23276, 52272, 20537, 14640, 20030,
            60610, 47619, 33513, 27555, 15164, 37824, 29854, 55094,
            27516, 32087,  5174, 30219, 37007, 52365, 23590, 28790,
            37330, 20654, 60962, 45483, 42308, 29529, 26548, 50914 >>
      [] s = 16 ->
         <<
            23692, 30750, 31488, 18673, 27325, 14853, 29278,   383,
            26838, 55976, 43103, 46596, 16964, 15588, 41615, 14577,
              663, 19437, 19794, 53406, 21958, 43693,  9302, 62369,
            48720, 39459, 20323,  1453, 51723, 14440, 62665, 39504,
            16613,  1335, 58559, 10089, 52929, 39717, 43739, 41350,
             1793, 30456, 29936, 39235, 41074, 46107, 19413, 64581,
            14702, 51291, 20302, 23709, 16923, 27543, 51630,  5632,
            22792, 32393, 27729, 33865, 42141, 11289, 62153, 36873 >>

\* The state of the module: the seed it was given and the words consumed since.
SeedRng(s) == [seed |-> s, pos |-> 0]
\* The k-th word the state r puts out next, and r after n words.
Word(r, k) == TwisterWords(r.seed)[r.pos + k]
Skip(r, n) == [r EXCEPT !.pos = @ + n]

\* random.random() < 0.5: the draw takes two words, the upper 27 bits of the
\* first are the upper bits of the float.
RandomBelowHalf(r) == Word(r, 1) < 32768
AfterRandom(r) == Skip(r, 2)

\* random.randint(0, 0xffffffffffffffff) is _randbelow(2^64): getrandbits(65),
\* three words a try, drawn again while bit 64 (the upper bit of the third
\* word) is set.  Accepted(r) is the state at the try that is kept.
RECURSIVE Accepted(_)
Accepted(r) == IF Word(r, 3) < 32768 THEN r ELSE Accepted(Skip(r, 3))
\* The value drawn, bits 32 to 63 being the second word: scaled from the
\* widget's range onto 0..SeedMax.
RandInt(r) == (Word(Accepted(r), 2) * (SeedMax + 1)) \div 65536
AfterRandInt(r) == Skip(Accepted(r), 3)

\* ------------------------------------------------------------- seed sequencer
\* A sequencer with the increase and decrease branches exchanged.
iterateSeedSwapped(s, seedMode, r) ==
    IF seedMode = SEED_MODE_RANDOM THEN RandInt(r)
    ELSE IF seedMode = SEED_MODE_INCREASE THEN s - 1
    ELSE IF seedMode = SEED_MODE_DECREASE THEN s + 1
    ELSE s

\* _iterateSeedByMode: the seed of the next frame; r is the random state.
\* Python integers do not wrap.
iterateSeedByMode(s, seedMode, r) ==
    IF seedMode = SEED_MODE_RANDOM THEN RandInt(r)
    ELSE IF seedMode = SEED_MODE_INCREASE THEN s + 1
    ELSE IF seedMode = SEED_MODE_DECREASE THEN s - 1
    ELSE s

\* The random state _iterateSeedByMode leaves: only the random mode draws.
SeedDraw(seedMode, r) == IF seedMode = SEED_MODE_RANDOM THEN AfterRandInt(r) ELSE r

\* ------------------------------------------------------------- latent recurrence
\* The flow branch of _iterateLatentByMode: a draw per call picks the direction.
FlowMode(latentMode, r) ==
    IF latentMode = LATENT_MODE_FLOW
    THEN (IF RandomBelowHalf(r) THEN LATENT_MODE_INCREASE ELSE LATENT_MODE_DECREASE)
    ELSE latentMode

\* The random state _iterateLatentByMode leaves: only the flow mode draws.
FlowDraw(latentMode, r) == IF latentMode = LATENT_MODE_FLOW THEN AfterRandom(r) ELSE r

\* nextValue of the bounce branch: the candidate mean.
NextValue(latent, up, modifier) ==
    IF up THEN Mean(latent) + modifier ELSE Mean(latent) - modifier

\* A bounds test that takes the limit itself for out of bounds.
WithinBoundsStrict(nextValue, modLimit) == -modLimit < nextValue /\ nextValue < modLimit
\* -modLimit <= nextValue <= modLimit
WithinBounds(nextValue, modLimit) == -modLimit <= nextValue /\ nextValue <= modLimit

\* The bounce branch: the mode it resolves to.
BounceMode(latent, up, modLimit, modifier) ==
    IF modLimit > 0
    THEN IF WithinBounds(NextValue(latent, up, modifier), modLimit)
         THEN (IF up THEN LATENT_MODE_INCREASE ELSE LATENT_MODE_DECREASE)
         ELSE (IF up THEN LATENT_MODE_DECREASE ELSE LATENT_MODE_INCREASE)
    ELSE LATENT_MODE_INCREASE

\* The bounce branch: self.__isBouncingUp after it.
BounceDirection(latent, up, modLimit, modifier) ==
    IF modLimit > 0 /\ ~WithinBounds(NextValue(latent, up, modifier), modLimit)
    THEN ~up
    ELSE up

\* A dispatch whose last branch adds instead of returning the latent.
ResolvedModeStaticAdds(latentMode, latent, up, modLimit, modifier, r) ==
    IF latentMode = LATENT_MODE_STATIC THEN LATENT_MODE_INCREASE
    ELSE IF FlowMode(latentMode, r) = LATENT_MODE_BOUNCE
    THEN BounceMode(latent, up, modLimit, modifier)
    ELSE FlowMode(latentMode, r)

\* The mode _iterateLatentByMode dispatches on, after its flow and bounce branches.
ResolvedMode(latentMode, latent, up, modLimit, modifier, r) ==
    IF FlowMode(latentMode, r) = LATENT_MODE_BOUNCE
    THEN BounceMode(latent, up, modLimit, modifier)
    ELSE FlowMode(latentMode, r)

\* self.__isBouncingUp after _iterateLatentByMode.
ResolvedDirection(latentMode, latent, up, modLimit, modifier, r) ==
    IF FlowMode(latentMode, r) = LATENT_MODE_BOUNCE
    THEN BounceDirection(latent, up, modLimit, modifier)
    ELSE up

\* Guards that also refuse a step onto the limit.
AddExceedsInclusive(latent, modLimit, modifier) ==
    (modLimit > 0) /\ (Mean(latent) + modifier) >= modLimit
SubtractExceedsInclusive(latent, modLimit, modifier) ==
    (modLimit > 0) /\ (Mean(latent) - modifier) <= -modLimit

\* The guards of _applyFeatToLatent: the step would take the mean past the limit.
AddExceeds(latent, modLimit, modifier) ==
    (modLimit > 0) /\ (Mean(latent) + modifier) > modLimit
SubtractExceeds(latent, modLimit, modifier) ==
    (modLimit > 0) /\ (Mean(latent) - modifier) < -modLimit

\* An add or subtract that does not look at the limit.
applyFeatUnchecked(latent, method, modLimit, modifier) ==
    IF method = FEAT_APPLY_METHOD_ADD
    THEN Broadcast(latent, modifier)
    ELSE Broadcast(latent, 0 - modifier)

\* _applyFeatToLatent: the values of the tensor object it was given, after the
\* call (it works in place and returns that same object).
applyFeatToLatent(latent, method, modLimit, modifier) ==
    IF method = FEAT_APPLY_METHOD_ADD
    THEN IF AddExceeds(latent, modLimit, modifier)
         THEN latent
         ELSE Broadcast(latent, modifier)
    ELSE IF SubtractExceeds(latent, modLimit, modifier)
         THEN latent
         ELSE Broadcast(latent, 0 - modifier)

\* ------------------------------------------------------------- process(): inputs
\* A prompt sequence of p PromptFrames, each with a positive conditioning of
\* length n; a PromptFrame is told from the others by its position.
Prompts(p, n) == [k \in 1..p |-> n]
PromptSeqs == {<<>>} \cup {Prompts(p, n) : p \in 1..MaxPrompts, n \in 0..MaxFrames}

ConstMods(n, c) == [k \in 1..n |-> c]
ModValues == {-1, 1, 5}

\* Runs that vary the prompt sequence, the image limit and the seed mode.
LoopInputs ==
    [prompts : PromptSeqs,
     latent_mods : {ConstMods(MaxFrames, 1)},
     seed : {0, SeedMax},
     latent_image : {<<0, 0>>},
     seed_mode : SeedModes,
     latent_mode : {LATENT_MODE_BOUNCE},
     image_limit : -1..MaxLimit,
     latent_mod_limit : {0, 2}]

\* Runs that vary the latent mode, the limit, the modifiers and the start.
LatentInputs ==
    [prompts : {Prompts(1, MaxFrames)},
     latent_mods : [1..MaxFrames -> ModValues],
     seed : {0, 3},
     latent_image : {<<-1, 1>>, <<1, 3>>},
     seed_mode : {SEED_MODE_FIXED},
     latent_mode : LatentModes \ {LATENT_MODE_GAUSS},
     image_limit : {-1},
     latent_mod_limit : {0, 2}]

\* Runs in the gauss mode, which reads neither the modifiers nor the limit.
GaussInputs ==
    [prompts : {Prompts(1, MaxFrames)},
     latent_mods : {ConstMods(MaxFrames, 1)},
     seed : {0, 3},
     latent_image : {<<-1, 1>>},
     seed_mode : {SEED_MODE_FIXED},
     latent_mode : {LATENT_MODE_GAUSS},
     image_limit : {-1, 2},
     latent_mod_limit : {2}]

\* Long runs with a constant modifier of 1 from a mean of 0.
LongInputs ==
    [prompts : {Prompts(1, LongFrames)},
     latent_mods : {ConstMods(LongFrames, 1)},
     seed : {0},
     latent_image : {<<0, 0>>, <<-1, 1>>},
     seed_mode : {SEED_MODE_FIXED},
     latent_mode : {LATENT_MODE_BOUNCE, LATENT_MODE_INCREASE, LATENT_MODE_DECREASE},
     image_limit : {-1},
     latent_mod_limit : {3, 5}]

\* Runs in the static mode that an image limit cuts short.
StaticInputs ==
    [prompts : {Prompts(1, MaxFrames)},
     latent_mods : {ConstMods(MaxFrames, 1), ConstMods(MaxFrames, 5)},
     seed : {0},
     latent_image : {<<1, 3>>},
     seed_mode : {SEED_MODE_FIXED},
     latent_mode : {LATENT_MODE_STATIC},
     image_limit : {1, 2},
     latent_mod_limit : {0, 2}]

Inputs == LoopInputs \cup LatentInputs \cup GaussInputs \cup LongInputs \cup StaticInputs

\* The arguments before the first call.
NoInput ==
    [prompts |-> <<>>, latent_mods |-> <<>>, seed |-> 0, latent_image |-> <<>>,
     seed_mode |-> SEED_MODE_FIXED, latent_mode |-> LATENT_MODE_STATIC,
     image_limit |-> -1, latent_mod_limit |-> 0]

\* ------------------------------------------------------------- state
VARIABLES
    isBouncingUp,       \* self.__isBouncingUp
    rng,                \* the state of Python's process-wide random module
    pc,                 \* where process() is: idle, iterate, sample, limit, chart, done, failed
    in,                 \* the arguments of the current call of process()
    heap,               \* the tensor objects: heap[1] is latent_image["samples"]
    latentTensor,       \* the object latentTensor refers to (0: none)
    latentTensorMeans,  \* the numpy array of the recorded means
    outputTensor,       \* the stacked sampler results (<<>>: None)
    seed,               \* the local seed
    promptPos,          \* the PromptFrame promptPos was built from (0-based)
    promptNeg,          \* the PromptFrame promptNeg was built from (0-based)
    i,                  \* the loop index
    error,              \* the exception process() raised
    chart,              \* the series handed to chartData
    samplerCalls,       \* log: the calls of common_ksampler of this run
    latentCalls,        \* log: the calls of _iterateLatentByMode of this run
    upAtStart,          \* log: self.__isBouncingUp when this run was called
    runNo,              \* log: the number of calls of process() on this instance
    prevRun             \* log: what the previous run on this instance recorded

vars == <<isBouncingUp, rng, pc, in, heap, latentTensor, latentTensorMeans,
          outputTensor, seed, promptPos, promptNeg, i, error, chart,
          samplerCalls, latentCalls, upAtStart, runNo, prevRun>>

NoRun == [ran |-> FALSE, means |-> <<>>, calls |-> <<>>, error |-> NoError]

\* __init__, and the process before the first call.
Init ==
    /\ isBouncingUp = TRUE
    /\ rng \in {SeedRng(0), SeedRng(3)}
    /\ pc = "idle"
    /\ in = NoInput
    /\ heap = <<>>
    /\ latentTensor = 0
    /\ latentTensorMeans = <<>>
    /\ outputTensor = <<>>
    /\ seed = 0
    /\ promptPos = 0
    /\ promptNeg = 0
    /\ i = 0
    /\ error = NoError
    /\ chart = <<>>
    /\ samplerCalls = <<>>
    /\ latentCalls = 0
    /\ upAtStart = TRUE
    /\ runNo = 0
    /\ prevRun = NoRun

\* ------------------------------------------------------------- process(): setup
\* A setup without the bounce check.
ValidateNoBounceCheck(prompts, latent_mode, latent_mod_limit) ==
    IF Len(prompts) = 0 THEN IndexError
    ELSE NoError

\* The exception the setup of process() ends with: prompts[0] is read before
\* either check.
Validate(prompts, latent_mode, latent_mod_limit) ==
    IF Len(prompts) = 0 THEN IndexError
    ELSE IF (latent_mode = LATENT_MODE_BOUNCE) /\ (latent_mod_limit <= 0) THEN BounceLimitError
    ELSE IF Len(prompts) = 0 THEN NoPromptError
    ELSE NoError

\* desiredFrames and promptCount of the current call
desiredFrames == in.prompts[1]
promptCount == Len(in.prompts)

\* A start of the loop on the caller's tensor object itself.
NoClone(obj) == obj

\* latent_image["samples"].clone(): a new tensor object with the same values.
CloneOf(obj) == obj + 1

\* process() from its entry to the top of the frame loop, on the instance's
\* samples tensor `samples`.
Enter(inp, samples) ==
    /\ in' = inp
    /\ rng' = SeedRng(inp.seed)
    /\ runNo' = runNo + 1
    /\ upAtStart' = isBouncingUp
    /\ samplerCalls' = <<>>
    /\ latentCalls' = 0
    /\ outputTensor' = <<>>
    /\ chart' = <<>>
    /\ seed' = inp.seed
    /\ i' = 0
    /\ error' = Validate(inp.prompts, inp.latent_mode, inp.latent_mod_limit)
    /\ UNCHANGED isBouncingUp
    /\ IF error' # NoError
       THEN /\ pc' = "failed"
            /\ heap' = <<samples>>
            /\ latentTensor' = 0
            /\ latentTensorMeans' = <<>>
            /\ promptPos' = 0
            /\ promptNeg' = 0
       ELSE /\ pc' = IF inp.prompts[1] > 0 THEN "iterate" ELSE "chart"
            /\ heap' = <<samples, samples>>
            /\ latentTensor' = CloneOf(1)
            /\ latentTensorMeans' = Zeros(inp.prompts[1])
            /\ promptPos' = 0
            /\ promptNeg' = 0

\* The first call of process() on a new instance.
Process(inp) ==
    /\ pc = "idle"
    /\ Enter(inp, inp.latent_image)
    /\ prevRun' = NoRun

\* A second call of process(), with the arguments of the first.
ProcessAgain ==
    /\ pc \in {"done", "failed"}
    /\ runNo = 1
    /\ Enter(in, heap[1])
    /\ prevRun' = [ran |-> TRUE, means |-> latentTensorMeans,
                   calls |-> samplerCalls, error |-> error]

\* ------------------------------------------------------------- process(): the frame loop
\* _iterateLatentByMode(latentTensor, latent_mode, latent_mod_limit, latent_mods[i])
\* and the recording of the mean.  The add and subtract steps change the tensor
\* object in place; the gauss step makes a new object.
IterateLatent ==
    /\ pc = "iterate"
    /\ LET modifier == in.latent_mods[i + 1]
           latent == heap[latentTensor]
           mode == ResolvedMode(in.latent_mode, latent, isBouncingUp,
                                in.latent_mod_limit, modifier, rng)
       IN /\ isBouncingUp' = ResolvedDirection(in.latent_mode, latent, isBouncingUp,
                                               in.latent_mod_limit, modifier, rng)
          /\ rng' = FlowDraw(in.latent_mode, rng)
          /\ \E g \in (IF mode = LATENT_MODE_GAUSS THEN GaussTensors ELSE {<<>>}) :
                IF mode = LATENT_MODE_INCREASE
                THEN /\ heap' = [heap EXCEPT ![latentTensor] =
                            applyFeatToLatent(latent, FEAT_APPLY_METHOD_ADD,
                                              in.latent_mod_limit, modifier)]
                     /\ latentTensor' = latentTensor
                ELSE IF mode = LATENT_MODE_DECREASE
                THEN /\ heap' = [heap EXCEPT ![latentTensor] =
                            applyFeatToLatent(latent, FEAT_APPLY_METHOD_SUBTRACT,
                                              in.latent_mod_limit, modifier)]
                     /\ latentTensor' = latentTensor
                ELSE IF mode = LATENT_MODE_GAUSS
                THEN /\ heap' = Append(heap, g)
                     /\ latentTensor' = Len(heap) + 1
                ELSE /\ heap' = heap
                     /\ latentTensor' = latentTensor
    /\ latentTensorMeans' = [latentTensorMeans EXCEPT ![i + 1] = Mean(heap'[latentTensor'])]
    /\ latentCalls' = latentCalls + 1
    /\ pc' = "sample"
    /\ UNCHANGED <<in, outputTensor, seed, promptPos, promptNeg, i, error, chart,
                   samplerCalls, upAtStart, runNo, prevRun>>

\* common_ksampler: a deterministic function of what it is given.
Sampler(s, positive, negative, samples) ==
    [seed |-> s, positive |-> positive, negative |-> negative, samples |-> samples]

\* The call of common_ksampler and the stacking of its result.
Sample ==
    /\ pc = "sample"
    /\ samplerCalls' = Append(samplerCalls,
            [seed |-> seed, positive |-> promptPos, negative |-> promptNeg,
             latent |-> latentTensor, samples |-> heap[latentTensor]])
    /\ outputTensor' = Append(outputTensor,
            Sampler(seed, promptPos, promptNeg, heap[latentTensor]))
    /\ pc' = "limit"
    /\ UNCHANGED <<isBouncingUp, rng, in, heap, latentTensor, latentTensorMeans, seed,
                   promptPos, promptNeg, i, error, chart, latentCalls, upAtStart,
                   runNo, prevRun>>

\* (image_limit > 0) and (i >= (image_limit - 1))
LimitReached(image_limit, idx) == (image_limit > 0) /\ (idx >= (image_limit - 1))

\* A break placed after the seed's advance.
LimitBreakAfterSeed ==
    /\ pc = "limit"
    /\ LimitReached(in.image_limit, i)
    /\ seed' = iterateSeedByMode(seed, in.seed_mode, rng)
    /\ pc' = "chart"
    /\ UNCHANGED <<isBouncingUp, rng, in, heap, latentTensor, latentTensorMeans,
                   outputTensor, promptPos, promptNeg, i, error, chart,
                   samplerCalls, latentCalls, upAtStart, runNo, prevRun>>

\* The break of the frame loop.
LimitBreak ==
    /\ pc = "limit"
    /\ LimitReached(in.image_limit, i)
    /\ pc' = "chart"
    /\ UNCHANGED <<isBouncingUp, rng, in, heap, latentTensor, latentTensorMeans,
                   outputTensor, seed, promptPos, promptNeg, i, error, chart,
                   samplerCalls, latentCalls, upAtStart, runNo, prevRun>>

\* A prompt rebuild that does not ask for more than one PromptFrame.
AdvancesPromptAlways(count, idx, frames) == (idx + 1) < frames

\* (promptCount > 1) and ((i + 1) < desiredFrames)
AdvancesPrompt(count, idx, frames) == (count > 1) /\ ((idx + 1) < frames)

\* A prompt rebuild from the frame just sampled.
SamePrompt(idx) == idx

\* The index of prompts[i + 1]
NextPrompt(idx) == idx + 1

\* The rest of the loop body: the seed and the prompt of the next frame.
\* prompts[i + 1] raises when the sequence is shorter than that.
Advance ==
    /\ pc = "limit"
    /\ ~LimitReached(in.image_limit, i)
    /\ seed' = iterateSeedByMode(seed, in.seed_mode, rng)
    /\ rng' = SeedDraw(in.seed_mode, rng)
    /\ IF AdvancesPrompt(promptCount, i, desiredFrames)
       THEN IF NextPrompt(i) < promptCount
            THEN /\ promptPos' = NextPrompt(i)
                 /\ promptNeg' = NextPrompt(i)
                 /\ error' = error
                 /\ pc' = "iterate"
                 /\ i' = i + 1
            ELSE /\ error' = IndexError
                 /\ pc' = "failed"
                 /\ UNCHANGED <<promptPos, promptNeg, i>>
       ELSE /\ UNCHANGED <<promptPos, promptNeg, error>>
            /\ pc' = IF (i + 1) < desiredFrames THEN "iterate" ELSE "chart"
            /\ i' = IF (i + 1) < desiredFrames THEN i + 1 ELSE i
    /\ UNCHANGED <<isBouncingUp, in, heap, latentTensor, latentTensorMeans,
                   outputTensor, chart, samplerCalls, latentCalls, upAtStart,
                   runNo, prevRun>>

\* chartData(latentTensorMeans, "Latent Means") and the return.
Chart ==
    /\ pc = "chart"
    /\ chart' = <<latentTensorMeans>>
    /\ pc' = "done"
    /\ UNCHANGED <<isBouncingUp, rng, in, heap, latentTensor, latentTensorMeans,
                   outputTensor, seed, promptPos, promptNeg, i, error,
                   samplerCalls, latentCalls, upAtStart, runNo, prevRun>>

Next ==
    \/ \E inp \in Inputs : Process(inp)
    \/ ProcessAgain
    \/ IterateLatent
    \/ Sample
    \/ LimitBreak
    \/ Advance
    \/ Chart

Spec == Init /\ [][Next]_vars

\* ------------------------------------------------------------- properties
\* A call of process() has been made.
Started == pc # "idle"
\* The arguments the bounce check of the setup rejects.
BounceRejected == in.latent_mode = LATENT_MODE_BOUNCE /\ in.latent_mod_limit <= 0
\* The run has a constant modifier of 1 and starts from a mean of 0.
UnitRun ==
    /\ Started
    /\ Len(in.prompts) > 0
    /\ in.latent_mods = ConstMods(Len(in.latent_mods), 1)
    /\ Mean(in.latent_image) = 0

\* 1,2,3,2,1,0,-1,-2,-3,-2,-1,0,1,...: the k-th value of the wave between -3 and 3.
Wave3(k) == LET r == k % 12 IN IF r <= 3 THEN r ELSE IF r <= 9 THEN 6 - r ELSE r - 12

C1Trajectory ==
    (UnitRun /\ in.latent_mode = LATENT_MODE_BOUNCE /\ in.latent_mod_limit = 3 /\ runNo = 1)
        => \A k \in 1..latentCalls : latentTensorMeans[k] = Wave3(k)

C1FlipRule ==
    (pc = "iterate" /\ pc' = "sample" /\ in.latent_mode = LATENT_MODE_BOUNCE)
        => LET m == Mean(heap[latentTensor])
               d == in.latent_mods[i + 1]
               c == IF isBouncingUp THEN m + d ELSE m - d
           IN (isBouncingUp' # isBouncingUp)
                  <=> (c < 0 - in.latent_mod_limit \/ c > in.latent_mod_limit)

\* C1: in bounce mode with modLimit 3, a constant modifier of 1 and a starting
\* mean of 0 on a fresh instance the recorded means are 1,2,3,2,1,0,-1,-2,-3,-2,...;
\* and in every bounce step the direction flips exactly when the candidate mean
\* lies outside [-modLimit, modLimit] (a candidate on the limit does not flip it).
C1_BounceTrajectoryAndFlip == []C1Trajectory /\ [][C1FlipRule]_vars

C1_Witness ==
    /\ UnitRun /\ in.latent_mode = LATENT_MODE_BOUNCE /\ in.latent_mod_limit = 3
    /\ runNo = 1
    /\ latentCalls >= 10
    /\ latentTensorMeans[3] = 3 /\ latentTensorMeans[4] = 2
    /\ latentTensorMeans[9] = -3 /\ latentTensorMeans[10] = -2

C2Trajectory ==
    (UnitRun /\ in.latent_mode = LATENT_MODE_INCREASE /\ in.latent_mod_limit = 5)
        => \A k \in 1..latentCalls : latentTensorMeans[k] = (IF k <= 5 THEN k ELSE 5)

C2AddRule ==
    (pc = "iterate" /\ pc' = "sample" /\ in.latent_mode = LATENT_MODE_INCREASE)
        => LET t == heap[latentTensor]
               d == in.latent_mods[i + 1]
           IN /\ latentTensor' = latentTensor
              /\ IF in.latent_mod_limit > 0 /\ Mean(t) + d > in.latent_mod_limit
                 THEN heap'[latentTensor] = t
                 ELSE /\ Mean(heap'[latentTensor]) = Mean(t) + d
                      /\ \A k \in DOMAIN t : heap'[latentTensor][k] = t[k] + d

\* C2: in increase mode with modLimit 5, a constant modifier of 1 and a starting
\* mean of 0 the recorded means are 1,2,3,4,5 and then 5 for ever; and every step
\* of the increase mode leaves the latent as it was when mean + modifier would be
\* greater than a positive modLimit, and otherwise adds the modifier.
C2_IncreaseFreezesAtLimit == []C2Trajectory /\ [][C2AddRule]_vars

C2_Witness ==
    /\ UnitRun /\ in.latent_mode = LATENT_MODE_INCREASE /\ in.latent_mod_limit = 5
    /\ latentCalls >= 7
    /\ latentTensorMeans[5] = 5 /\ latentTensorMeans[7] = 5

C3Trajectory ==
    (UnitRun /\ in.latent_mode = LATENT_MODE_DECREASE /\ in.latent_mod_limit = 5)
        => \A k \in 1..latentCalls : latentTensorMeans[k] = (IF k <= 5 THEN 0 - k ELSE -5)

C3SubtractRule ==
    (pc = "iterate" /\ pc' = "sample" /\ in.latent_mode = LATENT_MODE_DECREASE)
        => LET t == heap[latentTensor]
               d == in.latent_mods[i + 1]
           IN /\ latentTensor' = latentTensor
              /\ IF in.latent_mod_limit > 0 /\ Mean(t) - d < 0 - in.latent_mod_limit
                 THEN heap'[latentTensor] = t
                 ELSE /\ Mean(heap'[latentTensor]) = Mean(t) - d
                      /\ \A k \in DOMAIN t : heap'[latentTensor][k] = t[k] - d

\* C3: in decrease mode with modLimit 5, a constant modifier of 1 and a starting
\* mean of 0 the recorded means are -1,-2,-3,-4,-5 and then -5 for ever; and every
\* step of the decrease mode leaves the latent as it was when mean - modifier
\* would be less than -modLimit (modLimit positive), and otherwise subtracts the
\* modifier.
C3_DecreaseFreezesAtLimit == []C3Trajectory /\ [][C3SubtractRule]_vars

C3_Witness ==
    /\ UnitRun /\ in.latent_mode = LATENT_MODE_DECREASE /\ in.latent_mod_limit = 5
    /\ latentCalls >= 7
    /\ latentTensorMeans[5] = -5 /\ latentTensorMeans[7] = -5

\* The number of frames the claim C4 gives a run.
C4Frames ==
    IF in.image_limit <= 0 THEN in.prompts[1]
    ELSE IF in.prompts[1] < in.image_limit THEN in.prompts[1] ELSE in.image_limit

\* C4: a run that passed the setup's checks and has ended made desiredFrames
\* sampler calls and stacked as many slices when image_limit <= 0, and
\* min(desiredFrames, image_limit) of them when image_limit > 0.
C4_FrameCount ==
    (pc \in {"done", "failed"} /\ Len(in.prompts) > 0 /\ ~BounceRejected)
        => /\ Len(samplerCalls) = C4Frames
           /\ Len(outputTensor) = C4Frames

\* C5: when a positive image_limit stops the loop at frame image_limit - 1, the
\* seed and the prompt are those of the last sampler call, and the seed was
\* advanced image_limit - 1 times (seed + image_limit - 1 in the increase mode,
\* seed - (image_limit - 1) in the decrease mode, seed in the fixed mode).
C5_NoAdvanceAfterLimit ==
    (pc \in {"chart", "done"} /\ in.image_limit > 0 /\ Len(samplerCalls) = in.image_limit)
        => /\ i = in.image_limit - 1
           /\ seed = samplerCalls[Len(samplerCalls)].seed
           /\ promptPos = samplerCalls[Len(samplerCalls)].positive
           /\ promptNeg = samplerCalls[Len(samplerCalls)].negative
           /\ in.seed_mode = SEED_MODE_INCREASE => seed = in.seed + (in.image_limit - 1)
           /\ in.seed_mode = SEED_MODE_DECREASE => seed = in.seed - (in.image_limit - 1)
           /\ in.seed_mode = SEED_MODE_FIXED => seed = in.seed

C5_Witness ==
    /\ pc = "done"
    /\ in.image_limit = 2 /\ Len(samplerCalls) = 2
    /\ Len(in.prompts) = 3 /\ in.prompts[1] = 3
    /\ in.seed_mode = SEED_MODE_INCREASE
    /\ seed = in.seed + 1 /\ promptPos = 1

\* C6: a run given an empty prompt sequence fails with the error of the
\* missing-prompt check, with no sampler call.
C6_EmptyPromptsError ==
    (Started /\ Len(in.prompts) = 0)
        => /\ pc = "failed"
           /\ error = NoPromptError
           /\ samplerCalls = <<>>

\* C7: a run in bounce mode with modLimit <= 0 and a non-empty prompt sequence
\* fails with the bounce check's error before any frame: no latent step, no
\* sampler call, and the bounce direction as it was.
C7_BounceNeedsLimit ==
    (Started /\ Len(in.prompts) > 0 /\ BounceRejected)
        => /\ pc = "failed"
           /\ error = BounceLimitError
           /\ latentCalls = 0
           /\ samplerCalls = <<>>
           /\ isBouncingUp = upAtStart

C7_Witness ==
    /\ pc = "failed"
    /\ Len(in.prompts) = 2 /\ in.prompts[1] = 3
    /\ BounceRejected
    /\ error = BounceLimitError

\* C8: with more than one PromptFrame but fewer than desiredFrames, the run
\* does not fail, and every frame at or beyond the number of PromptFrames is
\* sampled with the last PromptFrame.
C8_LastPromptHeld ==
    (Started /\ Len(in.prompts) > 1 /\ Len(in.prompts) < in.prompts[1] /\ ~BounceRejected)
        => /\ pc # "failed"
           /\ \A k \in 1..Len(samplerCalls) :
                 (k - 1 >= Len(in.prompts))
                     => samplerCalls[k].positive = Len(in.prompts) - 1

\* C9: every run starts bouncing up, and a second bounce run with the inputs of
\* the first on the same instance records the trajectory of the first.
C9_BounceStateRunScoped ==
    /\ Started => upAtStart = TRUE
    /\ (pc = "done" /\ prevRun.ran /\ in.latent_mode = LATENT_MODE_BOUNCE)
           => latentTensorMeans = prevRun.means

\* C10: the series handed to the chart has one entry per sampler call, entry k
\* the mean of the latent of that call.
C10_TrajectoryPerFrame ==
    (pc = "done")
        => /\ Len(chart[1]) = Len(samplerCalls)
           /\ \A k \in 1..Len(samplerCalls) : chart[1][k] = Mean(samplerCalls[k].samples)

\* What the sampler was handed in a call: the seed, the prompt and the values
\* of the latent.
Handed(call) ==
    [seed |-> call.seed, positive |-> call.positive, negative |-> call.negative,
     samples |-> call.samples]

\* C11: a second run with the arguments of the first, starting in the bounce
\* direction the first started in, hands the sampler the same sequence of
\* (latent, seed, prompt) as the first, in every latent mode and seed mode.
C11_DeterministicUnderSeed ==
    (pc = "done" /\ prevRun.ran /\ upAtStart = TRUE)
        => /\ Len(samplerCalls) = Len(prevRun.calls)
           /\ \A k \in 1..Len(samplerCalls) :
                 Handed(samplerCalls[k]) = Handed(prevRun.calls[k])

\* C12: in the increase, decrease, flow and bounce modes a latent step does not
\* change the tensor object it was given: every tensor object handed to the
\* sampler still holds the values it had in that call.
C12_StepCopies ==
    (Started /\ in.latent_mode \in {LATENT_MODE_INCREASE, LATENT_MODE_DECREASE,
                                    LATENT_MODE_FLOW, LATENT_MODE_BOUNCE})
        => \A k \in 1..Len(samplerCalls) :
              heap[samplerCalls[k].latent] = samplerCalls[k].samples

\* C13: the caller's tensor, latent_image["samples"], holds the values it was
\* given at every point of a run, in every latent mode.
C13_CallerLatentUntouched ==
    Started => heap[1] = in.latent_image

C13_Witness ==
    /\ pc = "done"
    /\ in.latent_mode = LATENT_MODE_DECREASE
    /\ latentCalls = 3
    /\ heap[latentTensor] # in.latent_image
    /\ heap[1] = in.latent_image

\* C14: in static mode every sampler call gets a latent with the values of the
\* starting latent, whatever the modifiers and modLimit, and every mean a frame
\* records is the mean of the starting latent.
C14_StaticKeepsLatent ==
    (Started /\ in.latent_mode = LATENT_MODE_STATIC)
        => /\ \A k \in 1..Len(samplerCalls) : samplerCalls[k].samples = in.latent_image
           /\ \A k \in 1..latentCalls : latentTensorMeans[k] = Mean(in.latent_image)

C14_Witness ==
    /\ pc = "done"
    /\ in.latent_mode = LATENT_MODE_STATIC
    /\ in.latent_mods = <<5, -1, 1>>
    /\ in.latent_mod_limit = 2
    /\ Len(samplerCalls) = 3
    /\ samplerCalls[3].samples = in.latent_image
    /\ latentTensorMeans = <<2, 2, 2>>

\* C15: the seed of every sampler call lies in [0, SeedMax], the range of the
\* seed widget, for every initial seed of that range and every seed mode.
C15_SeedInRange ==
    \A k \in 1..Len(samplerCalls) :
        samplerCalls[k].seed >= 0 /\ samplerCalls[k].seed <= SeedMax

\* C16: with modLimit > 0 and a starting mean inside [-modLimit, modLimit], in
\* the increase, decrease, flow and bounce modes the mean of the latent stays
\* inside [-modLimit, modLimit] at every frame, for modifiers of either sign.
C16_MeanWithinLimit ==
    (/\ Started
     /\ Len(in.prompts) > 0
     /\ in.latent_mode \in {LATENT_MODE_INCREASE, LATENT_MODE_DECREASE,
                            LATENT_MODE_FLOW, LATENT_MODE_BOUNCE}
     /\ in.latent_mod_limit > 0
     /\ Mean(in.latent_image) >= 0 - in.latent_mod_limit
     /\ Mean(in.latent_image) <= in.latent_mod_limit)
        => \A k \in 1..latentCalls :
              /\ latentTensorMeans[k] >= 0 - in.latent_mod_limit
              /\ latentTensorMeans[k] <= in.latent_mod_limit

\* C17: with exactly one PromptFrame the run does not fail and every sampler
\* call gets the conditioning of that PromptFrame, for any frame count.
C17_SinglePromptHeld ==
    (Started /\ Len(in.prompts) = 1 /\ ~BounceRejected)
        => /\ pc # "failed"
           /\ \A k \in 1..Len(samplerCalls) :
                 samplerCalls[k].positive = 0 /\ samplerCalls[k].negative = 0

C17_Witness ==
    /\ pc = "done"
    /\ Len(in.prompts) = 1
    /\ in.image_limit <= 0
    /\ Len(samplerCalls) = in.prompts[1]
    /\ Len(samplerCalls) >= 3
    /\ samplerCalls[3].positive = 0

\* The seed the claim C18 gives the frame of index n.
C18Seed(n) ==
    IF in.seed_mode = SEED_MODE_INCREASE THEN in.seed + n
    ELSE IF in.seed_mode = SEED_MODE_DECREASE THEN in.seed - n
    ELSE in.seed

\* C18: frame 0 is sampled with the supplied seed and, in the fixed, increase
\* and decrease modes, frame n with seed, seed + n and seed - n; inside the
\* loop body the seed is that of the current frame until its sampler call has
\* returned.
C18_SeedAdvancedPerFrame ==
    /\ \A k \in 1..Len(samplerCalls) :
          /\ k = 1 => samplerCalls[k].seed = in.seed
          /\ in.seed_mode # SEED_MODE_RANDOM => samplerCalls[k].seed = C18Seed(k - 1)
    /\ (pc \in {"iterate", "sample", "limit"} /\ in.seed_mode # SEED_MODE_RANDOM)
          => seed = C18Seed(i)

C18_Witness ==
    /\ pc = "done"
    /\ in.seed_mode = SEED_MODE_DECREASE
    /\ in.seed = 0
    /\ Len(samplerCalls) = 3
    /\ samplerCalls[3].seed = -2

\* C19: with more than one PromptFrame and at least desiredFrames of them, the
\* run does not fail, the sampler call of frame n gets the conditioning of
\* PromptFrame n, and inside the loop body the prompt is that of the current
\* frame.
C19_PromptPerFrame ==
    (Started /\ Len(in.prompts) > 1 /\ Len(in.prompts) >= in.prompts[1] /\ ~BounceRejected)
        => /\ pc # "failed"
           /\ \A k \in 1..Len(samplerCalls) :
                 samplerCalls[k].positive = k - 1 /\ samplerCalls[k].negative = k - 1
           /\ pc \in {"iterate", "sample", "limit"} => (promptPos = i /\ promptNeg = i)

C19_Witness ==
    /\ pc = "done"
    /\ Len(in.prompts) = 3 /\ in.prompts[1] = 3
    /\ Len(samplerCalls) = 3
    /\ samplerCalls[2].positive = 1
    /\ samplerCalls[3].positive = 2

C20Bounded ==
    (/\ Started
     /\ Len(in.prompts) > 0
     /\ in.latent_mode = LATENT_MODE_BOUNCE
     /\ in.latent_mod_limit > 0
     /\ Mean(in.latent_image) >= 0 - in.latent_mod_limit
     /\ Mean(in.latent_image) <= in.latent_mod_limit
     /\ \A k \in DOMAIN in.latent_mods : in.latent_mods[k] >= 0)
        => /\ \A k \in 1..latentCalls :
                 /\ latentTensorMeans[k] >= 0 - in.latent_mod_limit
                 /\ latentTensorMeans[k] <= in.latent_mod_limit
           /\ Mean(heap[latentTensor]) >= 0 - in.latent_mod_limit
           /\ Mean(heap[latentTensor]) <= in.latent_mod_limit

C20StuckRule ==
    (/\ pc = "iterate" /\ pc' = "sample"
     /\ in.latent_mode = LATENT_MODE_BOUNCE
     /\ in.latent_mods[i + 1] >= 0
     /\ Mean(heap[latentTensor]) + in.latent_mods[i + 1] > in.latent_mod_limit
     /\ Mean(heap[latentTensor]) - in.latent_mods[i + 1] < 0 - in.latent_mod_limit)
        => /\ isBouncingUp' = ~isBouncingUp
           /\ latentTensor' = latentTensor
           /\ heap'[latentTensor] = heap[latentTensor]

\* C20: in bounce mode with modLimit > 0, a starting mean inside
\* [-modLimit, modLimit] and non-negative modifiers, the mean of the latent is
\* inside [-modLimit, modLimit] at every frame; and in a frame where the step
\* up and the step down would both leave the bounds, the direction flips and
\* the latent is left as it was.
C20_BounceStaysWithinLimit == []C20Bounded /\ [][C20StuckRule]_vars

C20_Witness ==
    /\ pc = "sample"
    /\ in.latent_mode = LATENT_MODE_BOUNCE
    /\ in.latent_mod_limit = 2
    /\ in.latent_mods[1] = 5
    /\ latentCalls = 1
    /\ upAtStart /\ ~isBouncingUp
    /\ heap[latentTensor] = in.latent_image
    /\ latentTensorMeans[1] = Mean(in.latent_image)
====
